---------------------------- MODULE Spec2Model ----------------------------
(***************************************************************************)
(* A model of script.js, the generative-art page of world-state-art: the   *)
(* three click handlers (generate, reset, download), the asynchronous      *)
(* generateArt with its cooperative yields, draftColors and the per-pixel   *)
(* computation.                                                            *)
(*                                                                         *)
(* Numbers.  JavaScript computes in doubles; the model computes the same   *)
(* expressions exactly, in fixed point.  A signal p_* is held in tenths    *)
(* (p_season = 6 is 0.6).  A draw of a seeded stream is k/DrawLevels with  *)
(* k in 0..DrawLevels-1, a noise sample is n/NoiseLevels with n in         *)
(* -NoiseLevels..NoiseLevels.  value, grain and ditheredValue are held in  *)
(* units of 1/Unit, a computed colour channel in units of 1/Unit as well.  *)
(* A field the record lacks reads as undefined: NaN in arithmetic, the     *)
(* string "undefined" in a string concatenation.                           *)
(***************************************************************************)
EXTENDS Integers, Sequences, FiniteSets

VARIABLES
    panel,                  \* the container shown: "intro", "loading", "art"
    subtitle,               \* the subtitle's text and colour
    timestampDisplay,       \* the timestamp label's text
    canvas,                 \* what is drawn on artCanvas
    currentWorldData,
    lastGeneratedImageData,
    lastSource,             \* history: the data lastGeneratedImageData is of
    alerted,                \* whether the failure alert was ever shown
    task,                   \* each invocation of the generate handler
    before,                 \* history: the state the last click found
    draft,                  \* a call of draftColors on its own
    bucket                  \* a sweep of the quantization on its own

vars == << panel, subtitle, timestampDisplay, canvas, currentWorldData,
           lastGeneratedImageData, lastSource, alerted, task, before,
           draft, bucket >>

\* ------------------------------------------------------------------ bounds

\* The raster of the page is 1240 x 1754 with a yield every 150 rows; the
\* model keeps the shape (several yields, a last chunk without one) on a
\* raster small enough to enumerate.
CANVAS_WIDTH == 2
CANVAS_HEIGHT == 4
CHUNK_SIZE == 2
\* Resolution of a stream draw and of a noise sample.
DrawLevels == 8
NoiseLevels == 4

Unit == 200 * DrawLevels * NoiseLevels

\* ------------------------------------------------------- JavaScript numbers

\* JSON null, and the absence of an ImageData.
Null == [kind |-> "null"]

\* The NaN that arithmetic on an undefined field yields.
NaN == -1000000000
\* The value a missing string field reads as in a concatenation.
Undefined == "undefined"

Plus(a, b) == IF a = NaN \/ b = NaN THEN NaN ELSE a + b
Times(a, b) == IF a = NaN \/ b = NaN THEN NaN ELSE a * b
\* a < b and a > b: false as soon as one side is NaN.
Less(a, b) == a # NaN /\ b # NaN /\ a < b
Greater(a, b) == a # NaN /\ b # NaN /\ a > b

\* Storing v (in 1/Unit) into a Uint8ClampedArray: NaN is 0, the value is
\* clamped to 0..255 and rounded to the nearest integer, ties to even.
ToUint8Clamp(v) ==
    IF v = NaN THEN 0
    ELSE IF v <= 0 THEN 0
    ELSE IF v >= 255 * Unit THEN 255
    ELSE LET q == v \div Unit
             f == v % Unit
         IN  IF 2 * f < Unit THEN q
             ELSE IF 2 * f > Unit THEN q + 1
             ELSE IF q % 2 = 0 THEN q ELSE q + 1

\* ------------------------------------------------------------ POOL, hexToRgb

\* The hex colours of POOL, each as the integer parseInt(hex, 16) gives.
POOL ==
    [dark |-> << 2899536, 1710638, 4854924, 1789810,
                 6561302, 1333810, 2174780, 5320287 >>,
     vibrant |-> << 16734003, 13041721, 16761600, 9440319, 3066993,
                    15158332, 9323693, 13849600, 15965202, 1752220 >>,
     light |-> << 16645886, 16051447, 16710119, 14022115,
                  16439200, 15268085, 13808862, 11132863 >>]

hexToRgb(bigint) ==
    << (bigint \div 65536) % 256, (bigint \div 256) % 256, bigint % 256 >>

\* ------------------------------------------------- seedrandom, SimplexNoise

\* The timestamps of the world-data records the model feeds the page.
Timestamps == {"2025-01-01T00:00:00Z", "2025-01-01T00:30:00Z", Undefined}

StrCode(s) ==
    CASE s = "2025-01-01T00:00:00Z" -> 3
      [] s = "2025-01-01T00:30:00Z" -> 5
      [] s = Undefined -> 11
      [] s = "_RETRO_V7" -> 7
      [] s = "_COLOR_DRAFT" -> 13

\* A seed string is the sequence of the strings concatenated into it.
RECURSIVE SeedCode(_)
SeedCode(seedStr) ==
    IF seedStr = << >> THEN 1
    ELSE StrCode(Head(seedStr)) + 17 * SeedCode(Tail(seedStr))

\* Math.seedrandom(seedStr): the i-th draw (i = 0, 1, ...) of the stream the
\* seed string keys, as k with the draw being k/DrawLevels.  A stand-in for
\* the library: a fixed function of the seed string and the call count.
seedrandom(seedStr, i) ==
    LET c == SeedCode(seedStr)
    IN  (c + 3 * i + i * i + (i * c) \div 3 + (c * (i + 1)) \div 2)
          % DrawLevels

\* The draws the SimplexNoise constructor takes from the stream it is given.
SimplexDraws == 1

\* new SimplexNoise(rng): the field is keyed by what the constructor drew.
SimplexNoise(seedStr) == SeedCode(seedStr) + 29 * seedrandom(seedStr, 0)

\* simplex.noise2D(cx, cy) as n with the sample being n/NoiseLevels; the
\* coordinates are in units of 1/(10000 * NoiseLevels).  A stand-in for the
\* library: a fixed function of the field and the coordinates.
noise2D(simplex, cx, cy) ==
    IF cx = NaN \/ cy = NaN THEN NaN
    ELSE ((simplex * 7 + cx * 3 + cy * 5 + (cx \div 7) + (cy \div 13))
            % (2 * NoiseLevels + 1)) - NoiseLevels


\* ------------------------------------------------------------- draftColors

\* One selected.push(pickFrom(arr)): the next draw of the draft stream picks
\* arr[Math.floor(rng() * arr.length)].
pickFrom(s, rngSeed, arr) ==
    [selected |-> Append(s.selected,
                         arr[((seedrandom(rngSeed, s.calls) * Len(arr))
                                \div DrawLevels) + 1]),
     calls |-> s.calls + 1]

\* The body of draftColors up to its return: the hex colours selected and
\* the number of draws taken from the stream.
draftSelected(season, sentiment, entropy, seedStr) ==
    LET rng == seedStr \o << "_COLOR_DRAFT" >>
        s0 == [selected |-> << >>, calls |-> 0]
        s1 == IF Greater(season, 6) THEN pickFrom(s0, rng, POOL.dark)
                                    ELSE pickFrom(s0, rng, POOL.light)
        s2 == pickFrom(s1, rng, POOL.vibrant)
        s3 == IF Greater(season, 6) THEN pickFrom(s2, rng, POOL.light)
                                    ELSE pickFrom(s2, rng, POOL.dark)
    IN  IF Greater(entropy, 5)
        THEN pickFrom(pickFrom(s3, rng, POOL.vibrant), rng, POOL.vibrant)
        ELSE pickFrom(pickFrom(s3, rng, POOL.light), rng, POOL.dark)

\* draftColors with season >= 0.6 for season > 0.6.
draftColorsInclusive(season, sentiment, entropy, seedStr) ==
    LET rng == seedStr \o << "_COLOR_DRAFT" >>
        warm == season # NaN /\ season >= 6
        s0 == [selected |-> << >>, calls |-> 0]
        s1 == pickFrom(s0, rng, IF warm THEN POOL.dark ELSE POOL.light)
        s2 == pickFrom(s1, rng, POOL.vibrant)
        s3 == pickFrom(s2, rng, IF warm THEN POOL.light ELSE POOL.dark)
        s5 == IF Greater(entropy, 5)
              THEN pickFrom(pickFrom(s3, rng, POOL.vibrant), rng, POOL.vibrant)
              ELSE pickFrom(pickFrom(s3, rng, POOL.light), rng, POOL.dark)
    IN  [i \in 1..5 |-> hexToRgb(s5.selected[i])]

draftColors(season, sentiment, entropy, seedStr) ==
    LET s == draftSelected(season, sentiment, entropy, seedStr).selected
    IN  [i \in 1..Len(s) |-> hexToRgb(s[i])]

\* --------------------------------------------------------- the pixel loop

\* The quantization with the indices of the third and fourth band swapped.
colIndexOfSwapped(ditheredValue) ==
    LET T == DrawLevels * NoiseLevels
    IN  IF Less(ditheredValue, 60 * T) THEN 0
        ELSE IF Less(ditheredValue, 100 * T) THEN 1
        ELSE IF Less(ditheredValue, 140 * T) THEN 3
        ELSE IF Less(ditheredValue, 170 * T) THEN 2
        ELSE 4

\* The quantization of lines 140-147; the thresholds 0.30, 0.50, 0.70 and
\* 0.85 in units of 1/Unit.
colIndexOf(ditheredValue) ==
    LET T == DrawLevels * NoiseLevels
        colIndex == IF Less(ditheredValue, 60 * T) THEN 0
                    ELSE IF Less(ditheredValue, 100 * T) THEN 1
                    ELSE IF Less(ditheredValue, 140 * T) THEN 2
                    ELSE IF Less(ditheredValue, 170 * T) THEN 3
                    ELSE 4
    IN  IF colIndex < 0 THEN 0 ELSE IF colIndex > 4 THEN 4 ELSE colIndex

\* value of line 134 from the three noise samples of lines 130-134.
warpedValue(data, simplex, x, y) ==
    LET zoom == Plus(20, Times(2, data.p_humanity))
        distortion == Plus(100, Times(20, data.p_entropy))
        xWarp == noise2D(simplex, Times(NoiseLevels * x, zoom),
                                  Times(NoiseLevels * y, zoom))
        yWarp == noise2D(simplex, Times(NoiseLevels * (x + 1000), zoom),
                                  Times(NoiseLevels * (y + 1000), zoom))
        finalX == Plus(NoiseLevels * x, Times(xWarp, distortion))
        finalY == Plus(NoiseLevels * y, Times(yWarp, distortion))
        n == noise2D(simplex, Times(finalX, zoom), Times(finalY, zoom))
    IN  Times(Plus(n, NoiseLevels), 100 * DrawLevels)

\* grain of lines 136-137 for the draw k/DrawLevels.
grainOf(data, k) ==
    LET grainAmount == Plus(10, data.p_atmosphere)
    IN  Times(Times(2 * k - DrawLevels, grainAmount), NoiseLevels)

\* A channel clamped to 0..255 before it is stored.
channelOfClamped(base, grain) ==
    LET v == Plus(Unit * base, Times(30, grain))
    IN  IF v = NaN THEN NaN
        ELSE IF v < 0 THEN 0
        ELSE IF v > 255 * Unit THEN 255 * Unit
        ELSE v

\* r, g or b of lines 150-152, in units of 1/Unit.
channelOf(base, grain) == Plus(Unit * base, Times(30, grain))

\* The locals of one iteration of the inner loop (lines 130-152).
pixelLocals(data, simplex, colors, k, x, y) ==
    LET grain == grainOf(data, k)
        ditheredValue == Plus(warpedValue(data, simplex, x, y), grain)
        colIndex == colIndexOf(ditheredValue)
        rgb == colors[colIndex + 1]
    IN  [x |-> x, y |-> y, grain |-> grain, ditheredValue |-> ditheredValue,
         colIndex |-> colIndex,
         r |-> channelOf(rgb[1], grain),
         g |-> channelOf(rgb[2], grain),
         b |-> channelOf(rgb[3], grain)]

\* Lines 154-155: the four stores of one pixel into pixels (1-based here).
storePixel(pixels, l) ==
    LET index == (l.y * CANVAS_WIDTH + l.x) * 4
    IN  [pixels EXCEPT ![index + 1] = ToUint8Clamp(l.r),
                       ![index + 2] = ToUint8Clamp(l.g),
                       ![index + 3] = ToUint8Clamp(l.b),
                       ![index + 4] = 255]

\* ctx.createImageData(CANVAS_WIDTH, CANVAS_HEIGHT): transparent black.
createImageData ==
    [width |-> CANVAS_WIDTH, height |-> CANVAS_HEIGHT,
     data |-> [i \in 1..(CANVAS_WIDTH * CANVAS_HEIGHT * 4) |-> 0]]

\* A seed that also depends on whether an earlier generation left a raster.
seedStringStale(data) ==
    IF lastGeneratedImageData = Null
    THEN << data.timestamp, "_RETRO_V7" >>
    ELSE << data.timestamp, "_RETRO_V7", "_RETRO_V7" >>

\* Line 109.
seedString(data) == << data.timestamp, "_RETRO_V7" >>

\* The frame of generateArt after lines 109-126: its locals.  calls counts
\* the draws taken from myRNG; locals records, per pixel computed, the
\* locals of its iteration.
newFrame(data) ==
    [data |-> data,
     seedString |-> seedString(data),
     simplex |-> SimplexNoise(seedString(data)),
     calls |-> SimplexDraws,
     colors |-> draftColors(data.p_season, data.p_sentiment, data.p_entropy,
                            seedString(data)),
     imageData |-> createImageData,
     locals |-> << >>,
     y |-> 0,
     suspended |-> FALSE]

\* The inner loop of lines 129-156 from column x on, for row f.y.
RECURSIVE rowFrom(_, _)
rowFrom(f, x) ==
    IF x >= CANVAS_WIDTH THEN f
    ELSE LET l == pixelLocals(f.data, f.simplex, f.colors,
                              seedrandom(f.seedString, f.calls), x, f.y)
         IN  rowFrom([f EXCEPT !.calls = f.calls + 1,
                               !.imageData.data = storePixel(@, l),
                               !.locals = Append(@, l)],
                     x + 1)

\* Line 158: whether the loop suspends after row y.
yieldsAfter(y) == y % CHUNK_SIZE = 0

\* The outer loop of lines 128-159 from row f.y on, up to its next
\* suspension or to its end.
RECURSIVE runToYield(_)
runToYield(f) ==
    IF f.y >= CANVAS_HEIGHT THEN [f EXCEPT !.suspended = FALSE]
    ELSE LET g == [rowFrom(f, 0) EXCEPT !.y = f.y + 1]
         IN  IF yieldsAfter(f.y) THEN [g EXCEPT !.suspended = TRUE]
             ELSE runToYield(g)

\* The same loop with line 158 removed: every row in one go.
RECURSIVE runAllRows(_)
runAllRows(f) ==
    IF f.y >= CANVAS_HEIGHT THEN f
    ELSE runAllRows([rowFrom(f, 0) EXCEPT !.y = f.y + 1])

\* -------------------------------------------------------------- the state

\* What response.json() may resolve to: null, or one of these records.  The
\* first two are well formed; the third has p_season out of range and lacks
\* timestamp and p_atmosphere.
WellFormed ==
    { [kind |-> "object", timestamp |-> "2025-01-01T00:00:00Z",
       p_season |-> 8, p_sentiment |-> 5, p_entropy |-> 7,
       p_humanity |-> 5, p_atmosphere |-> 10],
      [kind |-> "object", timestamp |-> "2025-01-01T00:30:00Z",
       p_season |-> 6, p_sentiment |-> 0, p_entropy |-> 5,
       p_humanity |-> 0, p_atmosphere |-> 0] }
Malformed ==
    { [kind |-> "object", timestamp |-> Undefined,
       p_season |-> 15, p_sentiment |-> 10, p_entropy |-> 0,
       p_humanity |-> 10, p_atmosphere |-> NaN] }
Records == WellFormed \cup Malformed

\* The invocations of the generate handler that may be in flight at once.
Tasks == {1, 2}

\* A cleared canvas, and a canvas after putImageData; stamped tells whether
\* the download handler has drawn its text over it.
Blank == [image |-> << >>, stamped |-> FALSE]
Drawn(imageData) == [image |-> imageData.data, stamped |-> FALSE]

NoFrame == [kind |-> "none"]
IdleTask == [pc |-> "idle", frame |-> NoFrame]

\* new Date(timestamp) formatted for the label.
DateText(timestamp) ==
    IF timestamp = Undefined THEN "INVALID DATE" ELSE timestamp

InitPage ==
    /\ panel = "intro"
    /\ subtitle = "intro"
    /\ timestampDisplay = ""
    /\ canvas = Blank
    /\ currentWorldData = Null
    /\ lastGeneratedImageData = Null
    /\ lastSource = Null
    /\ alerted = FALSE
    /\ task = [t \in Tasks |-> IdleTask]
    /\ before = Null

Init == InitPage /\ draft = Null /\ bucket = Null

\* ------------------------------------------------------- generate handler

\* Lines 72-77: the click shows the loading panel and starts the fetch.
Click(t) ==
    /\ task[t].pc = "idle"
    /\ \A u \in Tasks : u < t => task[u].pc # "idle"
    /\ panel' = "loading"
    /\ task' = [task EXCEPT ![t].pc = "fetch"]
    /\ UNCHANGED << subtitle, timestampDisplay, canvas, currentWorldData,
                    lastGeneratedImageData, lastSource, alerted,
                    draft, bucket >>

GenerateClick(t) == Click(t) /\ UNCHANGED before

\* Lines 90-94: the catch block.
Catch(t) ==
    /\ alerted' = TRUE
    /\ panel' = "intro"
    /\ task' = [task EXCEPT ![t] = IdleTask]
    /\ before' = Null

\* Lines 77-79: the fetch settles; a rejected fetch or a response that is
\* not ok goes to the catch block, an ok response on to response.json().
FetchSettled(t) ==
    /\ task[t].pc = "fetch"
    /\ \E ok \in BOOLEAN :
          IF ok
          THEN /\ task' = [task EXCEPT ![t].pc = "json"]
               /\ UNCHANGED << panel, alerted, before >>
          ELSE Catch(t)
    /\ UNCHANGED << subtitle, timestampDisplay, canvas, currentWorldData,
                    lastGeneratedImageData, lastSource, draft, bucket >>

\* Lines 79-82: response.json() settles; a body that does not parse goes to
\* the catch block, a parsed one is assigned and the 1200 ms timer started.
JsonSettled(t) ==
    /\ task[t].pc = "json"
    /\ \E v \in Records \cup {Null, [kind |-> "SyntaxError"]} :
          IF v.kind = "SyntaxError"
          THEN Catch(t) /\ UNCHANGED currentWorldData
          ELSE /\ currentWorldData' = v
               /\ task' = [task EXCEPT ![t].pc = "delay"]
               /\ UNCHANGED << panel, alerted, before >>
    /\ UNCHANGED << subtitle, timestampDisplay, canvas,
                    lastGeneratedImageData, lastSource, draft, bucket >>

\* Publish without line 162: the raster is drawn but not kept.
PublishNotKept(t, f) ==
    /\ canvas' = Drawn(f.imageData)
    /\ panel' = "art"
    /\ subtitle' = "result"
    /\ task' = [task EXCEPT ![t] = IdleTask]
    /\ before' = Null
    /\ UNCHANGED << lastGeneratedImageData, lastSource >>

\* Lines 161-162 and 86-88: the raster is drawn and kept, the art panel
\* shown.  Nothing runs between generateArt's return and line 86.
Publish(t, f) ==
    /\ canvas' = Drawn(f.imageData)
    /\ lastGeneratedImageData' = f.imageData
    /\ lastSource' = f.data
    /\ panel' = "art"
    /\ subtitle' = "result"
    /\ task' = [task EXCEPT ![t] = IdleTask]
    /\ before' = Null

\* Continue with lines 161-162 inside the loop: the raster is drawn and kept
\* at every suspension.
ContinueEager(t, f) ==
    /\ canvas' = Drawn(f.imageData)
    /\ lastGeneratedImageData' = f.imageData
    /\ lastSource' = f.data
    /\ IF f.suspended
       THEN /\ task' = [task EXCEPT ![t] = [pc |-> "loop", frame |-> f]]
            /\ UNCHANGED << panel, subtitle, before >>
       ELSE /\ panel' = "art"
            /\ subtitle' = "result"
            /\ task' = [task EXCEPT ![t] = IdleTask]
            /\ before' = Null

\* What a run of the loop leads to: a suspension at line 158, or the end.
Continue(t, f) ==
    IF f.suspended
    THEN /\ task' = [task EXCEPT ![t] = [pc |-> "loop", frame |-> f]]
         /\ UNCHANGED << panel, subtitle, canvas, lastGeneratedImageData,
                         lastSource, before >>
    ELSE Publish(t, f)

\* Lines 83 and 109-158: the timer fires and generateArt is called on what
\* currentWorldData holds now.  Reading a field of null throws (line 109).
DelayElapsed(t) ==
    /\ task[t].pc = "delay"
    /\ IF currentWorldData = Null
       THEN /\ Catch(t)
            /\ UNCHANGED << subtitle, timestampDisplay, canvas,
                            lastGeneratedImageData, lastSource >>
       ELSE /\ timestampDisplay' = DateText(currentWorldData.timestamp)
            /\ Continue(t, runToYield(newFrame(currentWorldData)))
            /\ UNCHANGED alerted
    /\ UNCHANGED << currentWorldData, draft, bucket >>

\* Resume with one stream shared by the generations in flight: the loop goes
\* on from the furthest position any of them has reached.
ResumeSharedStream(t) ==
    /\ task[t].pc = "loop"
    /\ LET reached == {task[u].frame.calls :
                         u \in {v \in Tasks : task[v].pc = "loop"}}
           furthest == CHOOSE c \in reached : \A e \in reached : e <= c
       IN  Continue(t, runToYield([task[t].frame EXCEPT !.calls = furthest]))
    /\ UNCHANGED << timestampDisplay, currentWorldData, alerted,
                    draft, bucket >>

\* Line 158 on: the zero-delay timer fires and the loop goes on.
Resume(t) ==
    /\ task[t].pc = "loop"
    /\ Continue(t, runToYield(task[t].frame))
    /\ UNCHANGED << timestampDisplay, currentWorldData, alerted,
                    draft, bucket >>

\* ------------------------------------------------ reset, download handlers

\* A reset that also drops the generations in flight.
ResetClickCancels ==
    /\ canvas' = Blank
    /\ panel' = "intro"
    /\ subtitle' = "intro"
    /\ task' = [t \in Tasks |-> IdleTask]
    /\ UNCHANGED << timestampDisplay, currentWorldData,
                    lastGeneratedImageData, lastSource, alerted,
                    before, draft, bucket >>

\* Lines 97-105.
ResetClick ==
    /\ canvas' = Blank
    /\ panel' = "intro"
    /\ subtitle' = "intro"
    /\ UNCHANGED << timestampDisplay, currentWorldData,
                    lastGeneratedImageData, lastSource, alerted, task,
                    before, draft, bucket >>

\* Lines 166-187.  Line 169 throws when currentWorldData is null, after
\* line 167 has run; otherwise the text is drawn over the canvas.  The
\* file handed to the browser is not state of the page.
DownloadClick ==
    /\ LET put == IF lastGeneratedImageData # Null
                  THEN Drawn(lastGeneratedImageData) ELSE canvas
       IN  canvas' = IF currentWorldData = Null THEN put
                     ELSE [put EXCEPT !.stamped = TRUE]
    /\ UNCHANGED << panel, subtitle, timestampDisplay, currentWorldData,
                    lastGeneratedImageData, lastSource, alerted, task,
                    before, draft, bucket >>

\* --------------------------------------------------------- specifications

\* Every handler may run whenever the event loop is free.
Next ==
    \/ \E t \in Tasks : GenerateClick(t)
    \/ \E t \in Tasks : FetchSettled(t)
    \/ \E t \in Tasks : JsonSettled(t)
    \/ \E t \in Tasks : DelayElapsed(t)
    \/ \E t \in Tasks : Resume(t)
    \/ ResetClick
    \/ DownloadClick

Spec == Init /\ [][Next]_vars

\* The timer callbacks of a generation under way are eventually run: weak
\* fairness of Resume(t), written out.  Resume(t) is enabled exactly when t
\* is suspended in the loop, and every step of it changes task[t].
FairSpec ==
    Spec /\ \A t \in Tasks : ([]<>(task[t].pc # "loop"))
                                \/ ([]<><<Resume(t)>>_vars)

\* The page as a user can drive it: the generate button is in the intro
\* panel, the reset and download buttons in the art panel, and a hidden
\* panel takes no click.
GenerateClickUI(t) ==
    /\ panel = "intro"
    /\ Click(t)
    /\ before' = [kind |-> "state",
                  currentWorldData |-> currentWorldData,
                  lastGeneratedImageData |-> lastGeneratedImageData,
                  canvas |-> canvas]

ResetClickUI == panel = "art" /\ ResetClick

DownloadClickUI == panel = "art" /\ DownloadClick

NextUI ==
    \/ \E t \in Tasks : GenerateClickUI(t)
    \/ \E t \in Tasks : FetchSettled(t)
    \/ \E t \in Tasks : JsonSettled(t)
    \/ \E t \in Tasks : DelayElapsed(t)
    \/ \E t \in Tasks : Resume(t)
    \/ ResetClickUI
    \/ DownloadClickUI

SpecUI == Init /\ [][NextUI]_vars

\* ------------------------------------------------- draftColors on its own

\* The signal values draftColors is called on (tenths): the boundaries 0.0,
\* 0.5, 0.6 and 1.0, a value just above 0.6, one out of range, and a
\* missing one.
SignalValues == {0, 5, 6, 7, 10, 15, NaN}

InitDraft ==
    /\ InitPage
    /\ bucket = Null
    /\ draft \in [kind : {"call"}, season : SignalValues,
                  sentiment : SignalValues, entropy : SignalValues,
                  seedStr : {seedString([timestamp |-> ts]) :
                               ts \in Timestamps}]

DraftCall ==
    /\ draft.kind = "call"
    /\ draft' = [kind |-> "returned", season |-> draft.season,
                 sentiment |-> draft.sentiment, entropy |-> draft.entropy,
                 seedStr |-> draft.seedStr,
                 colors |-> draftColors(draft.season, draft.sentiment,
                                        draft.entropy, draft.seedStr),
                 calls |-> draftSelected(draft.season, draft.sentiment,
                                         draft.entropy, draft.seedStr).calls]
    /\ UNCHANGED << panel, subtitle, timestampDisplay, canvas,
                    currentWorldData, lastGeneratedImageData, lastSource,
                    alerted, task, before, bucket >>

SpecDraft == InitDraft /\ [][DraftCall]_vars

\* ----------------------------------------------- quantization on its own

\* A sweep of ditheredValue, SweepStep/Unit at a time, over what the loop
\* can produce: value is in [0, 1] and grain in [-0.1, 0.1).
SweepStep == 20
SweepLow == 0 - (Unit \div 10)
SweepHigh == Unit + (Unit \div 10)

\* seen: the indices taken so far by values between 0.0 and 1.0.
Swept(v, previous, seen) ==
    [kind |-> "sweep", ditheredValue |-> v, colIndex |-> colIndexOf(v),
     previous |-> previous,
     seen |-> IF v # NaN /\ v >= 0 /\ v <= Unit
              THEN seen \cup {colIndexOf(v)} ELSE seen]

InitBucket ==
    /\ InitPage
    /\ draft = Null
    /\ bucket \in {Swept(SweepLow, colIndexOf(SweepLow), {}),
                   Swept(NaN, colIndexOf(NaN), {})}

SweepOn ==
    /\ bucket.ditheredValue # NaN
    /\ bucket.ditheredValue + SweepStep <= SweepHigh
    /\ bucket' = Swept(bucket.ditheredValue + SweepStep, bucket.colIndex,
                       bucket.seen)
    /\ UNCHANGED << panel, subtitle, timestampDisplay, canvas,
                    currentWorldData, lastGeneratedImageData, lastSource,
                    alerted, task, before, draft >>

SpecBucket == InitBucket /\ [][SweepOn]_vars

\* ------------------------------------------------------------ the claims

InLoop(t) == task[t].pc = "loop"

\* The raster the loop of lines 128-159 builds from data when it never
\* suspends.
Rasters == [d \in Records |-> runAllRows(newFrame(d)).imageData]
RasterOf(data) == Rasters[data]

\* The bytes of the rows 0..y-1 of an ImageData.
RowsBelow(imageData, y) == SubSeq(imageData.data, 1, y * CANVAS_WIDTH * 4)

\* Every pixel written: the loop stores 255 as alpha, createImageData 0.
Complete(imageData) ==
    \A i \in 1..(CANVAS_WIDTH * CANVAS_HEIGHT) : imageData.data[4 * i] = 255

PartlyWritten(imageData) ==
    /\ ~Complete(imageData)
    /\ \E i \in 1..(CANVAS_WIDTH * CANVAS_HEIGHT) : imageData.data[4 * i] = 255

\* The two parts of C1: on states, and on publishing steps.
C1_RunsAgree ==
    /\ \A t \in Tasks : \A u \in Tasks :
          (InLoop(t) /\ InLoop(u)
             /\ task[t].frame.data = task[u].frame.data
             /\ task[t].frame.y <= task[u].frame.y)
          => RowsBelow(task[t].frame.imageData, task[t].frame.y)
               = RowsBelow(task[u].frame.imageData, task[t].frame.y)
    /\ \A t \in Tasks :
          (InLoop(t) /\ lastGeneratedImageData # Null
             /\ task[t].frame.data = lastSource)
          => RowsBelow(task[t].frame.imageData, task[t].frame.y)
               = RowsBelow(lastGeneratedImageData, task[t].frame.y)
C1_Republish ==
    (lastGeneratedImageData # Null /\ lastSource' = lastSource)
    => lastGeneratedImageData' = lastGeneratedImageData

\* C1.  Determinism: two runs of generateArt on the same record build the
\* same raster.  Two runs in flight on the same record agree on every row
\* both have written; a run in flight on the record the published raster was
\* built from agrees with that raster on every row it has written; and a
\* step that publishes a raster of the same record as the one published
\* before publishes the same bytes.
C1_Determinism == [](C1_RunsAgree) /\ [][C1_Republish]_vars

\* A second run on the record of the published raster is past its last
\* suspension.
C1_Witness ==
    \E t \in Tasks :
       /\ InLoop(t)
       /\ lastGeneratedImageData # Null
       /\ task[t].frame.data = lastSource
       /\ task[t].frame.y > CHUNK_SIZE

\* C2.  Yield transparency: the raster a generation publishes, whatever ran
\* at its suspensions, is the raster the loop builds without suspending;
\* and at each suspension the rows written are the rows of that raster.
C2_YieldTransparent ==
    /\ lastGeneratedImageData # Null
         => /\ lastGeneratedImageData = RasterOf(lastSource)
    /\ \A t \in Tasks :
          InLoop(t)
          => RowsBelow(task[t].frame.imageData, task[t].frame.y)
               = RowsBelow(RasterOf(task[t].frame.data), task[t].frame.y)

\* A raster is published while a generation on another record is suspended
\* and the canvas has since been cleared.
C2_Witness ==
    /\ lastGeneratedImageData # Null
    /\ canvas = Blank
    /\ \E t \in Tasks : InLoop(t) /\ task[t].frame.data # lastSource

\* C3.  Atomic synthesis: what is kept in lastGeneratedImageData or drawn
\* on the canvas is never a partly written raster.
C3_Atomic ==
    /\ lastGeneratedImageData # Null => Complete(lastGeneratedImageData)
    /\ canvas.image # << >>
         => \A i \in 1..(CANVAS_WIDTH * CANVAS_HEIGHT) :
               canvas.image[4 * i] = 255

\* After a failed generation and a published one, a generation is suspended
\* with its raster partly written.
C3_Witness ==
    /\ alerted
    /\ lastGeneratedImageData # Null
    /\ \E t \in Tasks : InLoop(t) /\ PartlyWritten(task[t].frame.imageData)

\* A step of the generate handler t into its catch block.
C4_Fails(t) == task[t].pc # "idle" /\ Catch(t)

\* C4.  Failure returns to the pre-generation state: a step into the catch
\* block reports the failure, shows the intro panel and leaves
\* currentWorldData, lastGeneratedImageData and the canvas as the click
\* found them.
C4_FailureRestores ==
    [][\A t \in Tasks :
          C4_Fails(t)
          => /\ alerted'
             /\ panel' = "intro"
             /\ currentWorldData' = before.currentWorldData
             /\ lastGeneratedImageData' = before.lastGeneratedImageData
             /\ canvas' = before.canvas]_vars

\* C5.  Input validation: no raster is built, kept or shown for a record
\* that lacks a field or has a signal outside [0, 1].
C5_Validated ==
    /\ \A t \in Tasks : InLoop(t) => task[t].frame.data \in WellFormed
    /\ lastGeneratedImageData # Null => lastSource \in WellFormed
    /\ panel = "art" => currentWorldData \in WellFormed

\* What C6 expects of the call in draft: the draft stream's seed, the colour
\* its draw number slot picks from pool, the two tests, a pool's colours.
C6_Seed == draft.seedStr \o << "_COLOR_DRAFT" >>
C6_Drawn(pool, slot) ==
    hexToRgb(pool[((seedrandom(C6_Seed, slot) * Len(pool))
                     \div DrawLevels) + 1])
C6_Warm == draft.season # NaN /\ draft.season > 6
C6_Busy == draft.entropy # NaN /\ draft.entropy > 5
C6_From(pool) == {hexToRgb(pool[i]) : i \in 1..Len(pool)}

C7_Monotone ==
    bucket.kind = "sweep"
    => /\ bucket.colIndex \in 0..4
       /\ bucket.previous <= bucket.colIndex
       /\ (bucket.ditheredValue # NaN /\ bucket.ditheredValue >= Unit)
            => bucket.seen = 0..4

\* The sweep is above 1.0, where grain has pushed the value.
C7_Witness ==
    /\ bucket.kind = "sweep"
    /\ bucket.ditheredValue # NaN
    /\ bucket.ditheredValue > Unit
    /\ bucket.colIndex = 4
    /\ bucket.seen = 0..4

\* Generation t has just published the raster of d.
C8_Published(t, d) ==
    /\ ~InLoop(t)
    /\ panel = "art"
    /\ lastGeneratedImageData = RasterOf(d)
    /\ canvas = Drawn(RasterOf(d))

\* C8.  No cancellation: a generation suspended in its loop on a well-formed
\* record goes on to publish the whole raster of that record and to show
\* the art panel, whatever handlers run meanwhile.
C8_NoCancellation ==
    \A t \in Tasks : \A d \in WellFormed :
       (InLoop(t) /\ task[t].frame.data = d) ~> C8_Published(t, d)

\* A generation on a well-formed record is suspended after a reset click
\* (the intro panel shows) while another click's handler is in flight.
C8_Witness ==
    \E t \in Tasks : \E u \in Tasks :
       /\ InLoop(t)
       /\ task[t].frame.data \in WellFormed
       /\ panel = "intro"
       /\ canvas = Blank
       /\ task[u].pc \in {"fetch", "json", "delay"}

\* What C9 says of pixel i of frame f.
C9_Pixel(f, i) ==
    LET l == f.locals[i]
        k == seedrandom(f.seedString, SimplexDraws + i - 1)
        rgb == f.colors[l.colIndex + 1]
        at == (l.y * CANVAS_WIDTH + l.x) * 4
    IN  /\ l.grain = IF f.data.p_atmosphere = NaN THEN NaN
                     ELSE (2 * k - DrawLevels) * (10 + f.data.p_atmosphere)
                            * NoiseLevels
        /\ l.grain # NaN
             => /\ l.r = Unit * rgb[1] + 30 * l.grain
                /\ l.g = Unit * rgb[2] + 30 * l.grain
                /\ l.b = Unit * rgb[3] + 30 * l.grain
        /\ l.grain = NaN => (l.r = NaN /\ l.g = NaN /\ l.b = NaN)
        /\ f.imageData.data[at + 1] = ToUint8Clamp(l.r)
        /\ f.imageData.data[at + 2] = ToUint8Clamp(l.g)
        /\ f.imageData.data[at + 3] = ToUint8Clamp(l.b)

\* C9.  Unclamped channels: for every pixel computed, grain is
\* (draw - 0.5) * grainAmount and r, g, b are the palette channel plus
\* grain * 30, whatever the result; the byte stored is that value clamped.
C9_Unclamped ==
    \A t \in Tasks :
       InLoop(t)
       => \A i \in 1..Len(task[t].frame.locals) : C9_Pixel(task[t].frame, i)

\* A generation has computed a channel above 255 for one pixel and a
\* channel below 0 for another.
C9_Witness ==
    \E t \in Tasks :
       /\ InLoop(t)
       /\ \E i \in 1..Len(task[t].frame.locals) :
             LET l == task[t].frame.locals[i]
             IN  l.r # NaN /\ l.r > 255 * Unit
       /\ \E i \in 1..Len(task[t].frame.locals) :
             LET l == task[t].frame.locals[i]
             IN  l.b # NaN /\ l.b < 0

\* C10.  Art panel implies a matching result: while the art panel shows,
\* currentWorldData and lastGeneratedImageData are not null, the raster
\* kept is the raster of currentWorldData, and the canvas shows it (under
\* the stamp after a download).
C10_ArtMatches ==
    panel = "art"
    => /\ currentWorldData # Null
       /\ lastGeneratedImageData # Null
       /\ lastSource = currentWorldData
       /\ lastGeneratedImageData = RasterOf(currentWorldData)
       /\ canvas.image = lastGeneratedImageData.data

\* The art panel after a download.
C10_Witness == panel = "art" /\ canvas.stamped

=============================================================================
